---- MODULE Spec2Model ----
(***************************************************************************)
(* Model of the tokamak-equilibria crate: analytical and spline-backed     *)
(* q-factor, magnetic field, plasma current and electric field, the        *)
(* from_dataset construction pipelines and the aggregate.                  *)
(*                                                                         *)
(* Numbers.  An f64 is a record [k, n]: k is "fin", "pinf", "ninf" or      *)
(* "nan", and for a finite number n is the value in units of 1/Scale       *)
(* (fixed point).  Angles are in units of pi/3, so that 2*pi is Tau = 6.   *)
(* The interpolation backend (rsl_interpolation) and the dataset reader    *)
(* (tokamak_netcdf) are external crates; they are modelled by their        *)
(* linear / bilinear methods.                                              *)
(***************************************************************************)
EXTENDS Integers, Sequences, FiniteSets, TLC

----------------------------------------------------------------------------
(* Bounds of the exploration *)

\* queried flux values: one below the axis and 0..MaxPsi (fixed point)
MaxPsi == 5
\* queried angles range over -MaxTheta..MaxTheta (units of pi/3)
MaxTheta == 3
\* number of concurrent callers
NCallers == 2

----------------------------------------------------------------------------
(* f64 arithmetic *)

\* fixed-point scale of finite numbers
Scale == 100
\* std::f64::consts::TAU in angle units
Tau == 6

Fin(n) == [n |-> n, k |-> "fin"]
PInf == [n |-> 0, k |-> "pinf"]
NInf == [n |-> 0, k |-> "ninf"]
NaN == [n |-> 0, k |-> "nan"]
\* placeholder carried by a Result that holds no number
NoVal == [n |-> 0, k |-> "none"]

IsFinite(a) == a.k = "fin"
IsInf(a) == a.k \in {"pinf", "ninf"}

\* sign of an f64 other than NaN: -1, 0 or 1
Sgn(a) ==
    IF a.k = "pinf" THEN 1
    ELSE IF a.k = "ninf" THEN -1
    ELSE IF a.n > 0 THEN 1 ELSE IF a.n < 0 THEN -1 ELSE 0

InfOfSign(s) == IF s > 0 THEN PInf ELSE NInf

Abs(n) == IF n < 0 THEN -n ELSE n

\* integer quotient rounded toward zero, b # 0
TruncDiv(a, b) ==
    IF (a >= 0) = (b > 0) THEN Abs(a) \div Abs(b) ELSE -(Abs(a) \div Abs(b))

FNeg(a) ==
    IF a.k = "fin" THEN Fin(-a.n)
    ELSE IF a.k = "pinf" THEN NInf
    ELSE IF a.k = "ninf" THEN PInf
    ELSE a

FAdd(a, b) ==
    IF a.k = "nan" \/ b.k = "nan" THEN NaN
    ELSE IF IsInf(a) /\ IsInf(b) THEN (IF a.k = b.k THEN a ELSE NaN)
    ELSE IF IsInf(a) THEN a
    ELSE IF IsInf(b) THEN b
    ELSE Fin(a.n + b.n)

FSub(a, b) == FAdd(a, FNeg(b))

FMul(a, b) ==
    IF a.k = "nan" \/ b.k = "nan" THEN NaN
    ELSE IF IsInf(a) \/ IsInf(b)
         THEN (IF Sgn(a) * Sgn(b) = 0 THEN NaN ELSE InfOfSign(Sgn(a) * Sgn(b)))
    ELSE Fin(TruncDiv(a.n * b.n, Scale))

FDiv(a, b) ==
    IF a.k = "nan" \/ b.k = "nan" THEN NaN
    ELSE IF IsInf(a) /\ IsInf(b) THEN NaN
    ELSE IF IsInf(a) THEN InfOfSign(IF Sgn(b) < 0 THEN -Sgn(a) ELSE Sgn(a))
    ELSE IF IsInf(b) THEN Fin(0)
    ELSE IF b.n = 0 THEN (IF a.n = 0 THEN NaN ELSE InfOfSign(Sgn(a)))
    ELSE Fin(TruncDiv(a.n * Scale, b.n))

RECURSIVE ISqrtIn(_, _, _)
\* largest r in lo..hi with r*r <= n, given lo*lo <= n
ISqrtIn(n, lo, hi) ==
    IF lo >= hi THEN lo
    ELSE LET mid == (lo + hi + 1) \div 2
         IN IF mid * mid <= n THEN ISqrtIn(n, mid, hi) ELSE ISqrtIn(n, lo, mid - 1)

\* floor of the square root of n >= 0 (46340 is the largest root below 2^31)
ISqrt(n) == ISqrtIn(n, 0, IF n > 46340 THEN 46340 ELSE n)

\* f64::sqrt
FSqrt(a) ==
    IF a.k = "nan" \/ a.k = "ninf" THEN NaN
    ELSE IF a.k = "pinf" THEN PInf
    ELSE IF a.n < 0 THEN NaN
    ELSE Fin(ISqrt(a.n * Scale))

\* f64::powi(2)
FPowi2(a) == FMul(a, a)

\* f64::powf(3.0 / 2.0)
FPowf32(a) == FMul(a, FSqrt(a))

\* f64::rem_euclid with a positive finite modulus m (angle units)
RemEuclid(t, m) == t % m

\* f64::cos and f64::sin at multiples of pi/3, to 1/Scale
CosTable == <<100, 50, -50, -100, -50, 50>>
SinTable == <<0, 87, 87, 0, -87, -87>>

FCos(t) == Fin(CosTable[RemEuclid(t, Tau) + 1])

FSin(t) == Fin(SinTable[RemEuclid(t, Tau) + 1])

\* f64::atan, |error| below 0.005 on finite arguments:
\* x / (1 + 0.28 x^2) for |x| <= 1, pi/2 - x / (x^2 + 0.28) beyond
FAtan(a) ==
    IF a.k = "nan" THEN NaN
    ELSE IF a.k = "pinf" THEN Fin(157)
    ELSE IF a.k = "ninf" THEN Fin(-157)
    ELSE LET x == a.n
             x2 == TruncDiv(x * x, Scale)
         IN IF Abs(x) <= Scale
            THEN Fin(TruncDiv(x * Scale, Scale + TruncDiv(28 * x2, Scale)))
            ELSE LET t == TruncDiv(x * Scale, x2 + 28)
                 IN IF x > 0 THEN Fin(157 - t) ELSE Fin(-157 - t)

\* f64::is_sign_positive (the sign of zero is not modelled: 0 counts as +0.0)
IsSignPositive(psi) == psi >= 0

----------------------------------------------------------------------------
(* crate::Result<f64> *)

Ok(v) == [tag |-> "Ok", val |-> v, err |-> "-"]
Err(e) == [tag |-> "Err", val |-> NoVal, err |-> e]
\* the call did not return: panic (todo!(), failed debug_assert!)
Panicked == [tag |-> "Panic", val |-> NoVal, err |-> "-"]

IsOk(r) == r.tag = "Ok"
IsErr(r) == r.tag = "Err"

----------------------------------------------------------------------------
(* Interpolation backend (rsl_interpolation): accelerator, 1D linear spline *)

\* element i of a slice, indices from 0
At(xa, i) == xa[i + 1]

Last(xa) == xa[Len(xa)]

IsStrictlyIncreasing(xa) == \A k \in 1..(Len(xa) - 1) : xa[k] < xa[k + 1]

\* Accelerator::new(): the cached bracket index starts at 0
AccNew == [cache |-> 0]

RECURSIVE Bsearch(_, _, _, _)
\* index i in lo..hi-1 with xa[i] <= x < xa[i+1] (clamped at the ends)
Bsearch(xa, x, lo, hi) ==
    IF hi > lo + 1
    THEN LET mid == (hi + lo) \div 2
         IN IF At(xa, mid) > x THEN Bsearch(xa, x, lo, mid) ELSE Bsearch(xa, x, mid, hi)
    ELSE lo

\* Accelerator::find: the bracket index of x, searched from the cached index
AccFind(acc, xa, x) ==
    IF x < At(xa, acc.cache)
    THEN Bsearch(xa, x, 0, acc.cache)
    ELSE IF x >= At(xa, acc.cache + 1)
    THEN Bsearch(xa, x, acc.cache, Len(xa) - 1)
    ELSE acc.cache

\* interpolation method tags of the 1D and 2D constructors
Types1d == {"Linear"}
Types2d == {"Bilinear"}
\* minimum number of points of the linear methods
MinSize == 2

SplineOk(s) == [tag |-> "Ok", err |-> "-", spline |-> s]
SplineErr(e) == [tag |-> "Err", err |-> e, spline |-> [typ |-> "-"]]

\* make_spline(typ, xa, ya)
make_spline(typ, xa, ya) ==
    IF typ \notin Types1d THEN SplineErr("SplineError")
    ELSE IF Len(xa) # Len(ya) THEN SplineErr("SplineError")
    ELSE IF Len(xa) < MinSize THEN SplineErr("SplineError")
    ELSE IF ~IsStrictlyIncreasing(xa) THEN SplineErr("SplineError")
    ELSE SplineOk([xa |-> xa, typ |-> typ, ya |-> ya])

InBounds(xa, x) == At(xa, 0) <= x /\ x <= Last(xa)

\* outcome of an evaluation: the Result and the accelerator afterwards
Eval1(r, acc) == [acc |-> acc, res |-> r]

\* linear interpolant on the bracket i
LinearValue(s, i, x) ==
    LET xlo == At(s.xa, i)
        xhi == At(s.xa, i + 1)
        ylo == At(s.ya, i)
        yhi == At(s.ya, i + 1)
    IN IF xhi > xlo
       THEN Fin(ylo + TruncDiv((x - xlo) * (yhi - ylo), xhi - xlo))
       ELSE NaN

LinearDeriv(s, i) ==
    LET xlo == At(s.xa, i)
        xhi == At(s.xa, i + 1)
        ylo == At(s.ya, i)
        yhi == At(s.ya, i + 1)
    IN IF xhi > xlo
       THEN Fin(TruncDiv((yhi - ylo) * Scale, xhi - xlo))
       ELSE NaN

\* DynSpline::eval(x, acc)
SplineEval(s, x, acc) ==
    IF ~InBounds(s.xa, x) THEN Eval1(Err("DomainError"), acc)
    ELSE LET i == AccFind(acc, s.xa, x)
         IN Eval1(Ok(LinearValue(s, i, x)), [cache |-> i])

\* DynSpline::eval_deriv(x, acc)
SplineEvalDeriv(s, x, acc) ==
    IF ~InBounds(s.xa, x) THEN Eval1(Err("DomainError"), acc)
    ELSE LET i == AccFind(acc, s.xa, x)
         IN Eval1(Ok(LinearDeriv(s, i)), [cache |-> i])

\* twice the integral of the linear interpolant over [x1, x2] inside
\* bracket i, in units of 1/Scale^2
LinearInteg2(s, i, x1, x2) ==
    LET xlo == At(s.xa, i)
        xhi == At(s.xa, i + 1)
        ylo == At(s.ya, i)
        yhi == At(s.ya, i + 1)
    IN (x2 - x1) * (2 * ylo
          + TruncDiv((yhi - ylo) * ((x2 - xlo) + (x1 - xlo)), xhi - xlo))

RECURSIVE IntegSum(_, _, _, _, _, _)
IntegSum(s, i, ia, ib, a, b) ==
    IF i > ib THEN 0
    ELSE LET x1 == IF i = ia THEN a ELSE At(s.xa, i)
             x2 == IF i = ib THEN b ELSE At(s.xa, i + 1)
         IN LinearInteg2(s, i, x1, x2) + IntegSum(s, i + 1, ia, ib, a, b)

\* DynSpline::eval_integ(a, b, acc)
SplineEvalInteg(s, a, b, acc) ==
    IF a > b \/ ~InBounds(s.xa, a) \/ ~InBounds(s.xa, b)
    THEN Eval1(Err("DomainError"), acc)
    ELSE LET ia == AccFind(acc, s.xa, a)
             ib == AccFind([cache |-> ia], s.xa, b)
         IN Eval1(Ok(Fin(TruncDiv(IntegSum(s, ia, ia, ib, a, b), 2 * Scale))),
                  [cache |-> ib])

----------------------------------------------------------------------------
(* Interpolation backend: 2D bilinear spline *)

Spline2dOk(s) == [tag |-> "Ok", err |-> "-", spline |-> s]
Spline2dErr(e) == [tag |-> "Err", err |-> e, spline |-> [typ |-> "-"]]

\* position in za of the sample at (xa[i], ya[j])
Idx2d(i, j, xsize, ysize) == j * xsize + i

\* make_spline2d(typ, xa, ya, za)
make_spline2d(typ, xa, ya, za) ==
    IF typ \notin Types2d THEN Spline2dErr("SplineError")
    ELSE IF Len(za) # Len(xa) * Len(ya) THEN Spline2dErr("SplineError")
    ELSE IF Len(xa) < MinSize \/ Len(ya) < MinSize THEN Spline2dErr("SplineError")
    ELSE IF ~IsStrictlyIncreasing(xa) \/ ~IsStrictlyIncreasing(ya)
    THEN Spline2dErr("SplineError")
    ELSE Spline2dOk([xa |-> xa, typ |-> typ, ya |-> ya, za |-> za])

\* outcome of a 2D evaluation: the Result and both accelerators afterwards
Eval2(r, xacc, yacc) == [res |-> r, xacc |-> xacc, yacc |-> yacc]

\* the four corner samples and offsets of the cell (i, j) around (x, y)
Cell(s, i, j, x, y) ==
    LET nx == Len(s.xa)
        ny == Len(s.ya)
    IN [dx |-> At(s.xa, i + 1) - At(s.xa, i),
        dy |-> At(s.ya, j + 1) - At(s.ya, j),
        tx |-> x - At(s.xa, i),
        ty |-> y - At(s.ya, j),
        z00 |-> At(s.za, Idx2d(i, j, nx, ny)),
        z10 |-> At(s.za, Idx2d(i + 1, j, nx, ny)),
        z01 |-> At(s.za, Idx2d(i, j + 1, nx, ny)),
        z11 |-> At(s.za, Idx2d(i + 1, j + 1, nx, ny))]

BilinearValue(c) ==
    Fin(TruncDiv((c.dx - c.tx) * (c.dy - c.ty) * c.z00
                 + c.tx * (c.dy - c.ty) * c.z10
                 + (c.dx - c.tx) * c.ty * c.z01
                 + c.tx * c.ty * c.z11, c.dx * c.dy))

BilinearDerivX(c) ==
    Fin(TruncDiv(((c.dy - c.ty) * (c.z10 - c.z00) + c.ty * (c.z11 - c.z01)) * Scale,
                 c.dx * c.dy))

BilinearDerivY(c) ==
    Fin(TruncDiv(((c.dx - c.tx) * (c.z01 - c.z00) + c.tx * (c.z11 - c.z10)) * Scale,
                 c.dx * c.dy))

\* the second derivative of a bilinear interpolant is 0
BilinearDerivXX(c) == Fin(0)

\* "eval", "eval_deriv_x", "eval_deriv_y" or "eval_deriv_xx" on a cell
Bilinear(what, c) ==
    IF what = "eval" THEN BilinearValue(c)
    ELSE IF what = "eval_deriv_x" THEN BilinearDerivX(c)
    ELSE IF what = "eval_deriv_y" THEN BilinearDerivY(c)
    ELSE BilinearDerivXX(c)

\* DynSpline2d::eval / eval_deriv_x / eval_deriv_y / eval_deriv_xx (x, y, xacc, yacc)
Spline2dEval(what, s, x, y, xacc, yacc) ==
    IF ~InBounds(s.xa, x) \/ ~InBounds(s.ya, y)
    THEN Eval2(Err("DomainError"), xacc, yacc)
    ELSE LET i == AccFind(xacc, s.xa, x)
             j == AccFind(yacc, s.ya, y)
         IN Eval2(Ok(Bilinear(what, Cell(s, i, j, x, y))),
                  [cache |-> i], [cache |-> j])

----------------------------------------------------------------------------
(* Dataset reader (tokamak_netcdf) and the datasets on disk *)

\* tokamak_netcdf::variable_names
PSI_COORD == "psi"
PSIP_COORD == "psip"
THETA_COORD == "theta"
Q_FACTOR == "q"
CURRENT_I == "i"
CURRENT_G == "g"
B_FIELD == "b"

VarNames == {PSI_COORD, PSIP_COORD, THETA_COORD, Q_FACTOR, CURRENT_I, CURRENT_G, B_FIELD}

\* the tabulated equilibrium: flux grids, angle grid, profiles and the
\* B table (one row per flux sample, one column per angle sample)
GoodData ==
    [b |-> << <<96, 100, 108>>,
              <<88, 104, 120>> >>,
     psi |-> <<2, 4>>,
     i |-> <<10, 40>>,
     psip |-> <<1, 3>>,
     theta |-> <<0, 2, 4>>,
     q |-> <<100, 300>>,
     g |-> <<90, 60>>]

\* a second complete equilibrium, with other grids and a 3 x 2 B table
FineData ==
    [b |-> << <<98, 102>>,
              <<94, 106>>,
              <<85, 115>> >>,
     psi |-> <<1, 2, 5>>,
     i |-> <<0, 20, 30>>,
     psip |-> <<1, 3, 4>>,
     theta |-> <<0, 3>>,
     q |-> <<150, 200, 400>>,
     g |-> <<100, 80, 70>>]

\* a complete equilibrium whose q samples are those of the Parabolic profile
\* (q0, qwall, psi_wall) = (1.0, 4.0, 4.0) at psi = 1.0, 2.0, 3.0, 4.0
ParabolicData ==
    [b |-> << <<90, 110>>,
              <<80, 120>>,
              <<70, 130>>,
              <<60, 140>> >>,
     psi |-> <<100, 200, 300, 400>>,
     i |-> <<0, 10, 20, 30>>,
     psip |-> <<95, 170, 220, 242>>,
     theta |-> <<0, 3>>,
     q |-> <<119, 175, 269, 400>>,
     g |-> <<100, 90, 80, 70>>]

\* equilibria whose toroidal flux grid starts on the axis, or below it
ZeroData == [GoodData EXCEPT !.psi = <<0, 4>>]
NegativeData == [GoodData EXCEPT !.psi = <<-2, 4>>]

\* paths: two complete datasets, two with a flux grid that does not start
\* above 0, a file that cannot be opened, and one file per missing variable
NoVarPath(v) == "no_" \o v \o ".nc"
Paths ==
    {"good.nc", "fine.nc", "zero.nc", "negative.nc", "absent.nc"}
    \cup {NoVarPath(v) : v \in VarNames}

\* the contents of the file at path
DataOf(path) ==
    IF path = "fine.nc" THEN FineData
    ELSE IF path = "parabolic.nc" THEN ParabolicData
    ELSE IF path = "zero.nc" THEN ZeroData
    ELSE IF path = "negative.nc" THEN NegativeData
    ELSE GoodData

CanOpen(path) == path # "absent.nc"
HasVar(path, v) == path # NoVarPath(v)

FileOk(f) == [tag |-> "Ok", err |-> "-", file |-> f]
FileErr(e) == [tag |-> "Err", err |-> e, file |-> "-"]

\* tokamak_netcdf::Equilibrium::from_file(path)
from_file(path) == IF CanOpen(path) THEN FileOk(path) ELSE FileErr("NcError")

ArrOk(a) == [tag |-> "Ok", err |-> "-", arr |-> a]
ArrErr(e) == [tag |-> "Err", err |-> e, arr |-> <<>>]

\* Equilibrium::get_1d(name), Equilibrium::get_2d(name)
get_var(file, name) ==
    IF HasVar(file, name) THEN ArrOk(DataOf(file)[name]) ELSE ArrErr("NcError")

\* extract_var_with_axis_value(file, name, value): the array with value prepended
extract_var_with_axis_value(file, name, value) ==
    IF HasVar(file, name)
    THEN ArrOk(<<value>> \o DataOf(file)[name])
    ELSE ArrErr("NcError")

\* extract_var_with_first_axis_value(file, name): the array with its first
\* element duplicated in front
extract_var_with_first_axis_value(file, name) ==
    IF HasVar(file, name)
    THEN ArrOk(<<DataOf(file)[name][1]>> \o DataOf(file)[name])
    ELSE ArrErr("NcError")

----------------------------------------------------------------------------
(* Construction of the numerical quantities: from_dataset *)

\* no quantity object
NoObj == [kind |-> "none"]

\* Result<Self> of a constructor
Built(o) == [tag |-> "Ok", err |-> "-", obj |-> o]
Failed(e) == [tag |-> "Err", err |-> e, obj |-> NoObj]
\* the constructor panicked
Aborted == [tag |-> "Panic", err |-> "-", obj |-> NoObj]

RECURSIVE IntegrateQ(_, _, _, _, _)
\* the loop of qfactor::Numerical::from_dataset: psip_data[k] is the integral
\* of q_spline over [0, psi_data[k]], with one local accelerator; the first
\* failing eval_integ ends the loop with its error
IntegrateQ(q_spline, psi_data, k, acc, done) ==
    IF k > Len(psi_data) THEN ArrOk(done)
    ELSE LET e == SplineEvalInteg(q_spline, 0, psi_data[k], acc)
         IN IF ~IsOk(e.res) THEN ArrErr(e.res.err)
            ELSE IntegrateQ(q_spline, psi_data, k + 1, e.acc, Append(done, e.res.val.n))

\* Numerical::from_dataset as it would be if the axis values were prepended
\* only to a grid that does not already start at 0.0
QfactorFromDataset_PaddedIfAbsent(path, typ) ==
    LET eq == from_file(path)
        raw == get_var(eq.file, PSI_COORD)
        onaxis == IsOk(raw) /\ raw.arr[1] = 0
        psi_data == IF onaxis THEN raw
                    ELSE extract_var_with_axis_value(eq.file, PSI_COORD, 0)
        q_data == IF onaxis THEN get_var(eq.file, Q_FACTOR)
                  ELSE extract_var_with_first_axis_value(eq.file, Q_FACTOR)
        q_spline == make_spline(typ, psi_data.arr, q_data.arr)
        psip_data == IntegrateQ(q_spline.spline, psi_data.arr, 1, AccNew, <<>>)
        psip_spline == make_spline(typ, psi_data.arr, psip_data.arr)
    IN IF ~IsOk(eq) THEN Failed(eq.err)
       ELSE IF ~IsOk(psi_data) THEN Failed(psi_data.err)
       ELSE IF ~IsOk(q_data) THEN Failed(q_data.err)
       ELSE IF ~IsOk(q_spline) THEN Failed(q_spline.err)
       ELSE IF ~IsOk(psip_data) THEN Failed(psip_data.err)
       ELSE IF ~IsOk(psip_spline) THEN Failed(psip_spline.err)
       ELSE Built([kind |-> "qfactor::Numerical",
                   q_spline |-> q_spline.spline,
                   psip_data |-> psip_data.arr,
                   psip_spline |-> psip_spline.spline])

\* Numerical::from_dataset as it would be if the second spline were built
\* over the q samples instead of the integrated ones
QfactorFromDataset_Unintegrated(path, typ) ==
    LET eq == from_file(path)
        psi_data == extract_var_with_axis_value(eq.file, PSI_COORD, 0)
        q_data == extract_var_with_first_axis_value(eq.file, Q_FACTOR)
        q_spline == make_spline(typ, psi_data.arr, q_data.arr)
        psip_data == IntegrateQ(q_spline.spline, psi_data.arr, 1, AccNew, <<>>)
        psip_spline == make_spline(typ, psi_data.arr, q_data.arr)
    IN IF ~IsOk(eq) THEN Failed(eq.err)
       ELSE IF ~IsOk(psi_data) THEN Failed(psi_data.err)
       ELSE IF ~IsOk(q_data) THEN Failed(q_data.err)
       ELSE IF ~IsOk(q_spline) THEN Failed(q_spline.err)
       ELSE IF ~IsOk(psip_data) THEN Failed(psip_data.err)
       ELSE IF ~IsOk(psip_spline) THEN Failed(psip_spline.err)
       ELSE Built([kind |-> "qfactor::Numerical",
                   q_spline |-> q_spline.spline,
                   psip_data |-> psip_data.arr,
                   psip_spline |-> psip_spline.spline])

\* qfactor::Numerical::from_dataset(path, typ)
QfactorFromDataset(path, typ) ==
    LET eq == from_file(path)
        psi_data == extract_var_with_axis_value(eq.file, PSI_COORD, 0)
        q_data == extract_var_with_first_axis_value(eq.file, Q_FACTOR)
        q_spline == make_spline(typ, psi_data.arr, q_data.arr)
        psip_data == IntegrateQ(q_spline.spline, psi_data.arr, 1, AccNew, <<>>)
        psip_spline == make_spline(typ, psi_data.arr, psip_data.arr)
    IN IF ~IsOk(eq) THEN Failed(eq.err)
       ELSE IF ~IsOk(psi_data) THEN Failed(psi_data.err)
       ELSE IF ~IsOk(q_data) THEN Failed(q_data.err)
       ELSE IF ~IsOk(q_spline) THEN Failed(q_spline.err)
       ELSE IF ~IsOk(psip_data) THEN Failed(psip_data.err)
       ELSE IF ~IsOk(psip_spline) THEN Failed(psip_spline.err)
       ELSE Built([kind |-> "qfactor::Numerical",
                   q_spline |-> q_spline.spline,
                   psip_data |-> psip_data.arr,
                   psip_spline |-> psip_spline.spline])

\* Array2::from_elem((1, ncols), 1.0)
OnesRow(ncols) == [c \in 1..ncols |-> Scale]

RECURSIVE Flatten(_)
\* Array2::flatten: the rows one after the other
Flatten(rows) == IF rows = <<>> THEN <<>> ELSE Head(rows) \o Flatten(Tail(rows))

\* bfield::Numerical::from_dataset as it would be if the row of ones were
\* concatenated after the table instead of before it
BfieldFromDataset_Appended(path, typ) ==
    LET eq == from_file(path)
        psi_data == extract_var_with_axis_value(eq.file, PSI_COORD, 0)
        theta_data == get_var(eq.file, THETA_COORD)
        b_raw == get_var(eq.file, B_FIELD)
        b_axis_values == OnesRow(Len(b_raw.arr[1]))
        b_data == b_raw.arr \o <<b_axis_values>>
        b_data_flat == Flatten(b_data)
        b_spline == make_spline2d(typ, psi_data.arr, theta_data.arr, b_data_flat)
    IN IF ~IsOk(eq) THEN Failed(eq.err)
       ELSE IF ~IsOk(psi_data) THEN Failed(psi_data.err)
       ELSE IF ~IsOk(theta_data) THEN Failed(theta_data.err)
       ELSE IF ~IsOk(b_raw) THEN Failed(b_raw.err)
       ELSE IF ~IsOk(b_spline) THEN Failed(b_spline.err)
       ELSE Built([kind |-> "bfield::Numerical",
                   b_data |-> b_data,
                   b_spline |-> b_spline.spline])

\* bfield::Numerical::from_dataset(path, typ)
BfieldFromDataset(path, typ) ==
    LET eq == from_file(path)
        psi_data == extract_var_with_axis_value(eq.file, PSI_COORD, 0)
        theta_data == get_var(eq.file, THETA_COORD)
        b_raw == get_var(eq.file, B_FIELD)
        b_axis_values == OnesRow(Len(b_raw.arr[1]))
        b_data == <<b_axis_values>> \o b_raw.arr
        b_data_flat == Flatten(b_data)
        b_spline == make_spline2d(typ, psi_data.arr, theta_data.arr, b_data_flat)
    IN IF ~IsOk(eq) THEN Failed(eq.err)
       ELSE IF ~IsOk(psi_data) THEN Failed(psi_data.err)
       ELSE IF ~IsOk(theta_data) THEN Failed(theta_data.err)
       ELSE IF ~IsOk(b_raw) THEN Failed(b_raw.err)
       ELSE IF ~IsOk(b_spline) THEN Failed(b_spline.err)
       ELSE Built([kind |-> "bfield::Numerical",
                   b_data |-> b_data,
                   b_spline |-> b_spline.spline])

\* current::Numerical::from_dataset as it would be if an unsupported method
\* tag fell back to the linear method instead of failing
CurrentFromDataset_Fallback(path, typ) ==
    LET eq == from_file(path)
        used == IF typ \in Types1d THEN typ ELSE "Linear"
        psi_data == extract_var_with_axis_value(eq.file, PSI_COORD, 0)
        i_data == extract_var_with_first_axis_value(eq.file, CURRENT_I)
        g_data == extract_var_with_first_axis_value(eq.file, CURRENT_G)
        i_spline == make_spline(used, psi_data.arr, i_data.arr)
        g_spline == make_spline(used, psi_data.arr, g_data.arr)
    IN IF ~IsOk(eq) THEN Failed(eq.err)
       ELSE IF ~IsOk(psi_data) THEN Failed(psi_data.err)
       ELSE IF ~IsOk(i_data) THEN Failed(i_data.err)
       ELSE IF ~IsOk(g_data) THEN Failed(g_data.err)
       ELSE IF ~IsOk(i_spline) THEN Failed(i_spline.err)
       ELSE IF ~IsOk(g_spline) THEN Failed(g_spline.err)
       ELSE Built([kind |-> "current::Numerical",
                   i_spline |-> i_spline.spline,
                   g_spline |-> g_spline.spline])

\* current::Numerical::from_dataset as it would be if the I samples were
\* padded with 0.0 instead of their first sample
CurrentFromDataset_ZeroPadded(path, typ) ==
    LET eq == from_file(path)
        psi_data == extract_var_with_axis_value(eq.file, PSI_COORD, 0)
        i_data == extract_var_with_axis_value(eq.file, CURRENT_I, 0)
        g_data == extract_var_with_first_axis_value(eq.file, CURRENT_G)
        i_spline == make_spline(typ, psi_data.arr, i_data.arr)
        g_spline == make_spline(typ, psi_data.arr, g_data.arr)
    IN IF ~IsOk(eq) THEN Failed(eq.err)
       ELSE IF ~IsOk(psi_data) THEN Failed(psi_data.err)
       ELSE IF ~IsOk(i_data) THEN Failed(i_data.err)
       ELSE IF ~IsOk(g_data) THEN Failed(g_data.err)
       ELSE IF ~IsOk(i_spline) THEN Failed(i_spline.err)
       ELSE IF ~IsOk(g_spline) THEN Failed(g_spline.err)
       ELSE Built([kind |-> "current::Numerical",
                   i_spline |-> i_spline.spline,
                   g_spline |-> g_spline.spline])

\* current::Numerical::from_dataset(path, typ)
CurrentFromDataset(path, typ) ==
    LET eq == from_file(path)
        psi_data == extract_var_with_axis_value(eq.file, PSI_COORD, 0)
        i_data == extract_var_with_first_axis_value(eq.file, CURRENT_I)
        g_data == extract_var_with_first_axis_value(eq.file, CURRENT_G)
        i_spline == make_spline(typ, psi_data.arr, i_data.arr)
        g_spline == make_spline(typ, psi_data.arr, g_data.arr)
    IN IF ~IsOk(eq) THEN Failed(eq.err)
       ELSE IF ~IsOk(psi_data) THEN Failed(psi_data.err)
       ELSE IF ~IsOk(i_data) THEN Failed(i_data.err)
       ELSE IF ~IsOk(g_data) THEN Failed(g_data.err)
       ELSE IF ~IsOk(i_spline) THEN Failed(i_spline.err)
       ELSE IF ~IsOk(g_spline) THEN Failed(g_spline.err)
       ELSE Built([kind |-> "current::Numerical",
                   i_spline |-> i_spline.spline,
                   g_spline |-> g_spline.spline])

\* Bfield::from_dataset(path, typ) of bfield.rs: the B spline over the
\* poloidal flux grid
PyBfieldFromDataset(path, typ) ==
    LET eq == from_file(path)
        psip_data == extract_var_with_axis_value(eq.file, PSIP_COORD, 0)
        theta_data == get_var(eq.file, THETA_COORD)
        b_raw == get_var(eq.file, B_FIELD)
        b_axis_values == OnesRow(Len(b_raw.arr[1]))
        b_data == <<b_axis_values>> \o b_raw.arr
        b_data_flat == Flatten(b_data)
        b_spline == make_spline2d(typ, psip_data.arr, theta_data.arr, b_data_flat)
    IN IF ~IsOk(eq) THEN Failed(eq.err)
       ELSE IF ~IsOk(psip_data) THEN Failed(psip_data.err)
       ELSE IF ~IsOk(theta_data) THEN Failed(theta_data.err)
       ELSE IF ~IsOk(b_raw) THEN Failed(b_raw.err)
       ELSE IF ~IsOk(b_spline) THEN Failed(b_spline.err)
       ELSE Built([kind |-> "Bfield", b_spline |-> b_spline.spline])

\* Equilibrium::from_dataset(path): opens the file, then todo!()
EquilibriumFromDataset(path) ==
    LET file == from_file(path)
    IN IF ~IsOk(file) THEN Failed(file.err) ELSE Aborted

----------------------------------------------------------------------------
(* Analytical quantities and the aggregate *)

\* qfactor::Unity::new(), bfield::Lar::new(), current::Lar::new(),
\* efield::NoEfield::new(): unit structs, always Ok
UnityNew == Built([kind |-> "qfactor::Unity"])
LarNew == Built([kind |-> "bfield::Lar"])
CurrentLarNew == Built([kind |-> "current::Lar"])
NoEfieldNew == Built([kind |-> "efield::NoEfield"])

\* qfactor::Parabolic::new(q0, qwall, psi_wall)
ParabolicNew(q0, qwall, psi_wall) ==
    LET diff == FSub(qwall, q0)
        sqrt_q0 == FSqrt(q0)
    IN Built([kind |-> "qfactor::Parabolic",
              q0 |-> q0,
              qwall |-> qwall,
              psi_wall |-> psi_wall,
              diff |-> diff,
              sqrt_diff |-> FSqrt(diff),
              sqrt_prod |-> FMul(sqrt_q0, FSqrt(diff)),
              sqrt_q0psi_wall |-> FMul(sqrt_q0, psi_wall)])

\* Tokamak::build as it would be if it ignored the q-factor it is given
TokamakBuild_DefaultQfactor(qfactor, bfield, current, efield) ==
    Built([kind |-> "Tokamak",
           qfactor |-> UnityNew.obj,
           bfield |-> bfield,
           current |-> current,
           efield |-> efield])

\* Tokamak::build / Equilibrium::from_analytical(qfactor, bfield, current, efield)
TokamakBuild(qfactor, bfield, current, efield) ==
    Built([kind |-> "Tokamak",
           qfactor |-> qfactor,
           bfield |-> bfield,
           current |-> current,
           efield |-> efield])

\* debug_assert!(psi.is_sign_positive()) fails: debug build and negative psi
DebugAssertFails(psi, debug) == debug /\ ~IsSignPositive(psi)

\* Option<&mut Accelerator>::None
NoAcc == [none |-> TRUE]

(* Unity *)
Unity_q(self, psi, acc, debug) ==
    IF DebugAssertFails(psi, debug) THEN Eval1(Panicked, acc)
    ELSE Eval1(Ok(Fin(Scale)), acc)

\* Unity::psip as it would be if it returned the safety factor
Unity_psip_Constant(self, psi, acc, debug) ==
    IF DebugAssertFails(psi, debug) THEN Eval1(Panicked, acc)
    ELSE Eval1(Ok(Fin(Scale)), acc)

Unity_psip(self, psi, acc, debug) ==
    IF DebugAssertFails(psi, debug) THEN Eval1(Panicked, acc)
    ELSE Eval1(Ok(Fin(psi)), acc)

\* Parabolic::q as it would be without the powi(2)
Parabolic_q_Linear(self, psi, acc, debug) ==
    IF DebugAssertFails(psi, debug) THEN Eval1(Panicked, acc)
    ELSE Eval1(Ok(FAdd(self.q0, FMul(self.diff, FDiv(Fin(psi), self.psi_wall)))),
               acc)

(* Parabolic *)
Parabolic_q(self, psi, acc, debug) ==
    IF DebugAssertFails(psi, debug) THEN Eval1(Panicked, acc)
    ELSE Eval1(Ok(FAdd(self.q0,
                       FMul(self.diff, FPowi2(FDiv(Fin(psi), self.psi_wall))))),
               acc)

\* Parabolic::psip as it would be with the arguments of the quotient inside
\* the atan exchanged
Parabolic_psip_Inverted(self, psi, acc, debug) ==
    IF DebugAssertFails(psi, debug) THEN Eval1(Panicked, acc)
    ELSE LET atan == FAtan(FDiv(self.sqrt_q0psi_wall, FMul(self.sqrt_diff, Fin(psi))))
             psip == FMul(FDiv(self.psi_wall, self.sqrt_prod), atan)
         IN Eval1(Ok(psip), acc)

Parabolic_psip(self, psi, acc, debug) ==
    IF DebugAssertFails(psi, debug) THEN Eval1(Panicked, acc)
    ELSE LET atan == FAtan(FDiv(FMul(self.sqrt_diff, Fin(psi)), self.sqrt_q0psi_wall))
             psip == FMul(FDiv(self.psi_wall, self.sqrt_prod), atan)
         IN Eval1(Ok(psip), acc)

\* Numerical::q as it would be if it interpolated on the bracket cached in
\* the accelerator without searching for the bracket of psi
Numerical_q_Stale(self, psi, acc) ==
    IF acc = NoAcc THEN Eval1(Err("AccError"), acc)
    ELSE IF ~InBounds(self.q_spline.xa, psi) THEN Eval1(Err("DomainError"), acc)
    ELSE Eval1(Ok(LinearValue(self.q_spline, acc.cache, psi)), acc)

\* Numerical::q as it would be if the coordinate were checked before the
\* accelerator
Numerical_q_DomainFirst(self, psi, acc) ==
    IF ~InBounds(self.q_spline.xa, psi) THEN Eval1(Err("DomainError"), acc)
    ELSE IF acc = NoAcc THEN Eval1(Err("AccError"), acc)
    ELSE SplineEval(self.q_spline, psi, acc)

(* qfactor::Numerical *)
Numerical_q(self, psi, acc) ==
    IF acc = NoAcc THEN Eval1(Err("AccError"), acc)
    ELSE SplineEval(self.q_spline, psi, acc)

Numerical_psip(self, psi, acc) ==
    IF acc = NoAcc THEN Eval1(Err("AccError"), acc)
    ELSE SplineEval(self.psip_spline, psi, acc)

\* 2 * psi
TwoPsi(psi) == FMul(Fin(2 * Scale), Fin(psi))

(* bfield::Lar *)
Lar_b(self, psi, theta, xacc, yacc, debug) ==
    IF DebugAssertFails(psi, debug) THEN Eval2(Panicked, xacc, yacc)
    ELSE Eval2(Ok(FSub(Fin(Scale), FMul(FSqrt(TwoPsi(psi)), FCos(theta)))), xacc, yacc)

Lar_db_dtheta(self, psi, theta, xacc, yacc, debug) ==
    IF DebugAssertFails(psi, debug) THEN Eval2(Panicked, xacc, yacc)
    ELSE Eval2(Ok(FMul(FSqrt(TwoPsi(psi)), FSin(theta))), xacc, yacc)

Lar_db_dpsi(self, psi, theta, xacc, yacc, debug) ==
    IF DebugAssertFails(psi, debug) THEN Eval2(Panicked, xacc, yacc)
    ELSE Eval2(Ok(FDiv(FNeg(FCos(theta)), FSqrt(TwoPsi(psi)))), xacc, yacc)

\* Lar::d2b_dpsi2 as its doc comment states it: -cos(theta) / (2 psi)^(3/2)
Lar_d2b_dpsi2_Documented(self, psi, theta, xacc, yacc, debug) ==
    IF DebugAssertFails(psi, debug) THEN Eval2(Panicked, xacc, yacc)
    ELSE Eval2(Ok(FDiv(FNeg(FCos(theta)), FPowf32(TwoPsi(psi)))), xacc, yacc)

Lar_d2b_dpsi2(self, psi, theta, xacc, yacc, debug) ==
    IF DebugAssertFails(psi, debug) THEN Eval2(Panicked, xacc, yacc)
    ELSE Eval2(Ok(FDiv(FCos(theta),
                       FPowf32(FMul(Fin(2 * Scale), FSqrt(Fin(psi)))))),
               xacc, yacc)

(* bfield::Numerical: theta is passed to the spline as given *)
BNumerical_b(self, psi, theta, xacc, yacc) ==
    Spline2dEval("eval", self.b_spline, psi, theta, xacc, yacc)

BNumerical_db_dtheta(self, psi, theta, xacc, yacc) ==
    Spline2dEval("eval_deriv_y", self.b_spline, psi, theta, xacc, yacc)

BNumerical_db_dpsi(self, psi, theta, xacc, yacc) ==
    Spline2dEval("eval_deriv_x", self.b_spline, psi, theta, xacc, yacc)

BNumerical_d2b_dpsi2(self, psi, theta, xacc, yacc) ==
    Spline2dEval("eval_deriv_xx", self.b_spline, psi, theta, xacc, yacc)

\* mod_theta(theta) = theta.rem_euclid(TAU)
mod_theta(theta) == RemEuclid(theta, Tau)

(* Bfield of bfield.rs: theta is wrapped by mod_theta *)
Bfield_b(self, psip, theta, xacc, yacc) ==
    Spline2dEval("eval", self.b_spline, psip, mod_theta(theta), xacc, yacc)

Bfield_db_dtheta(self, psip, theta, xacc, yacc) ==
    Spline2dEval("eval_deriv_y", self.b_spline, psip, mod_theta(theta), xacc, yacc)

Bfield_db_dpsi(self, psip, theta, xacc, yacc) ==
    Spline2dEval("eval_deriv_x", self.b_spline, psip, mod_theta(theta), xacc, yacc)

Bfield_d2b_dpsi2(self, psip, theta, xacc, yacc) ==
    Spline2dEval("eval_deriv_xx", self.b_spline, psip, mod_theta(theta), xacc, yacc)

(* current::Lar *)
CurrentLar_i(self, psi, acc) == Eval1(Ok(Fin(0)), acc)
\* Lar::g as it would be if the toroidal current vanished like the poloidal one
CurrentLar_g_Zero(self, psi, acc) == Eval1(Ok(Fin(0)), acc)
CurrentLar_g(self, psi, acc) == Eval1(Ok(Fin(Scale)), acc)
CurrentLar_i_der(self, psi, acc) == Eval1(Ok(Fin(0)), acc)
CurrentLar_g_der(self, psi, acc) == Eval1(Ok(Fin(0)), acc)

\* Numerical::i as it would be if psi were clamped to the grid
CNumerical_i_Clamped(self, psi, acc) ==
    LET lo == At(self.i_spline.xa, 0)
        hi == Last(self.i_spline.xa)
        clamped == IF psi < lo THEN lo ELSE IF psi > hi THEN hi ELSE psi
    IN SplineEval(self.i_spline, clamped, acc)

(* current::Numerical *)
CNumerical_i(self, psi, acc) == SplineEval(self.i_spline, psi, acc)
CNumerical_g(self, psi, acc) == SplineEval(self.g_spline, psi, acc)
CNumerical_i_der(self, psi, acc) == SplineEvalDeriv(self.i_spline, psi, acc)
CNumerical_g_der(self, psi, acc) == SplineEvalDeriv(self.g_spline, psi, acc)

\* NoEfield queries as they would be if they reset the accelerators
NoEfield_query_Reset(self, psi, theta, xacc, yacc, debug) ==
    IF DebugAssertFails(psi, debug) THEN Eval2(Panicked, xacc, yacc)
    ELSE Eval2(Ok(Fin(0)), AccNew, AccNew)

\* NoEfield queries as they would be if theta had to lie in [0, TAU)
NoEfield_query_Bounded(self, psi, theta, xacc, yacc, debug) ==
    IF DebugAssertFails(psi, debug) THEN Eval2(Panicked, xacc, yacc)
    ELSE IF theta < 0 \/ theta >= Tau THEN Eval2(Err("DomainError"), xacc, yacc)
    ELSE Eval2(Ok(Fin(0)), xacc, yacc)

(* efield::NoEfield: phi, e, dphi_dpsi, dphi_dtheta have the same body *)
NoEfield_query(self, psi, theta, xacc, yacc, debug) ==
    IF DebugAssertFails(psi, debug) THEN Eval2(Panicked, xacc, yacc)
    ELSE Eval2(Ok(Fin(0)), xacc, yacc)

----------------------------------------------------------------------------
(* Trait dispatch: the impl chosen by the concrete type of the field *)

QfactorOps == {"q", "psip"}
CurrentOps == {"i", "g", "i_der", "g_der"}
BfieldOps == {"b", "db_dtheta", "db_dpsi", "d2b_dpsi2"}
EfieldOps == {"phi", "e", "dphi_dpsi", "dphi_dtheta"}

\* impls whose accelerator parameter is Option<&mut Accelerator>
OptionalAccKinds == {"qfactor::Numerical", "qfactor::Parabolic"}

\* impl Qfactor for ...
QfactorCall(self, op, psi, acc, debug) ==
    IF self.kind = "qfactor::Numerical"
    THEN (IF op = "q" THEN Numerical_q(self, psi, acc) ELSE Numerical_psip(self, psi, acc))
    ELSE IF self.kind = "qfactor::Parabolic"
    THEN (IF op = "q" THEN Parabolic_q(self, psi, acc, debug)
          ELSE Parabolic_psip(self, psi, acc, debug))
    ELSE (IF op = "q" THEN Unity_q(self, psi, acc, debug)
          ELSE Unity_psip(self, psi, acc, debug))

\* impl Current for ...
CurrentCall(self, op, psi, acc) ==
    IF self.kind = "current::Numerical"
    THEN (IF op = "i" THEN CNumerical_i(self, psi, acc)
          ELSE IF op = "g" THEN CNumerical_g(self, psi, acc)
          ELSE IF op = "i_der" THEN CNumerical_i_der(self, psi, acc)
          ELSE CNumerical_g_der(self, psi, acc))
    ELSE (IF op = "i" THEN CurrentLar_i(self, psi, acc)
          ELSE IF op = "g" THEN CurrentLar_g(self, psi, acc)
          ELSE IF op = "i_der" THEN CurrentLar_i_der(self, psi, acc)
          ELSE CurrentLar_g_der(self, psi, acc))

\* impl Bfield for ..., and the methods of Bfield of bfield.rs
BfieldCall(self, op, psi, theta, xacc, yacc, debug) ==
    IF self.kind = "bfield::Numerical"
    THEN (IF op = "b" THEN BNumerical_b(self, psi, theta, xacc, yacc)
          ELSE IF op = "db_dtheta" THEN BNumerical_db_dtheta(self, psi, theta, xacc, yacc)
          ELSE IF op = "db_dpsi" THEN BNumerical_db_dpsi(self, psi, theta, xacc, yacc)
          ELSE BNumerical_d2b_dpsi2(self, psi, theta, xacc, yacc))
    ELSE IF self.kind = "Bfield"
    THEN (IF op = "b" THEN Bfield_b(self, psi, theta, xacc, yacc)
          ELSE IF op = "db_dtheta" THEN Bfield_db_dtheta(self, psi, theta, xacc, yacc)
          ELSE IF op = "db_dpsi" THEN Bfield_db_dpsi(self, psi, theta, xacc, yacc)
          ELSE Bfield_d2b_dpsi2(self, psi, theta, xacc, yacc))
    ELSE (IF op = "b" THEN Lar_b(self, psi, theta, xacc, yacc, debug)
          ELSE IF op = "db_dtheta" THEN Lar_db_dtheta(self, psi, theta, xacc, yacc, debug)
          ELSE IF op = "db_dpsi" THEN Lar_db_dpsi(self, psi, theta, xacc, yacc, debug)
          ELSE Lar_d2b_dpsi2(self, psi, theta, xacc, yacc, debug))

\* impl Efield for NoEfield
EfieldCall(self, op, psi, theta, xacc, yacc, debug) ==
    NoEfield_query(self, psi, theta, xacc, yacc, debug)

----------------------------------------------------------------------------
(* State *)

VARIABLES
    tok,    \* the aggregate (Tokamak / Equilibrium), NoObj before it is built
    accs,   \* accs[c]: the psi and theta accelerators owned by caller c
    last,   \* the last query: caller, operation, arguments, build, whether an
            \* accelerator passed to it had been used before, and the Result
    parts,  \* the quantities constructed so far and not yet moved into tok
    ctor    \* the last constructor call and its Result

vars == <<tok, accs, last, parts, ctor>>

Callers == 1..NCallers
PsiQueries == {-1} \cup 0..MaxPsi
ThetaQueries == (-MaxTheta)..MaxTheta

\* method tags passed to from_dataset
Tags == {"Linear", "Bilinear", "bogus"}

\* (q0, qwall, psi_wall) passed to Parabolic::new: a regular profile, and
\* qwall < q0, qwall = q0, q0 = 0, psi_wall = 0
ParabolicParams ==
    {<<100, 400, 4>>, <<200, 100, 4>>, <<100, 100, 4>>, <<0, 100, 4>>, <<100, 400, 0>>}

NewParabolic(p) == ParabolicNew(Fin(p[1]), Fin(p[2]), Fin(p[3]))

\* the accelerators passed if all callers shared those of caller 1
Owner_Shared(c) == 1

\* the accelerators the caller c passes: its own
Owner(c) == c

NoQuery ==
    [psi |-> 0, res |-> [tag |-> "-", val |-> NoVal, err |-> "-"], theta |-> 0, debug |-> FALSE, op |-> "-",
     caller |-> 0, some |-> TRUE,
     reuse |-> FALSE]

NoCtor ==
    [tag |-> "-", err |-> "-", typ |-> "-", path |-> "-",
     obj |-> NoObj, op |-> "-", params |-> <<>>]

NoParts == [qfactor |-> NoObj, bfield |-> NoObj, current |-> NoObj, efield |-> NoObj]

FreshAccs == [c \in Callers |-> [psi |-> AccNew, theta |-> AccNew]]

\* the aggregates queried: numerical quantities of the complete dataset
\* (with the B field of bfield/numerical.rs or of bfield.rs) and analytical ones
NumericalTokamak ==
    TokamakBuild(QfactorFromDataset("good.nc", "Linear").obj,
                 BfieldFromDataset("good.nc", "Bilinear").obj,
                 CurrentFromDataset("good.nc", "Linear").obj,
                 NoEfieldNew.obj).obj

WrappingTokamak ==
    TokamakBuild(QfactorFromDataset("good.nc", "Linear").obj,
                 PyBfieldFromDataset("good.nc", "Bilinear").obj,
                 CurrentFromDataset("good.nc", "Linear").obj,
                 NoEfieldNew.obj).obj

AnalyticalTokamak(qfactor) ==
    TokamakBuild(qfactor, LarNew.obj, CurrentLarNew.obj, NoEfieldNew.obj).obj

\* the Parabolic profiles queried: the regular one and one with qwall < q0
QueriedParabolic == {<<100, 400, 4>>, <<200, 100, 4>>}

Tokamaks ==
    {NumericalTokamak, WrappingTokamak, AnalyticalTokamak(UnityNew.obj)}
    \cup {AnalyticalTokamak(NewParabolic(p).obj) : p \in QueriedParabolic}

\* the builds in which a query at psi can behave differently: debug
\* assertions (TRUE) matter only where is_sign_positive fails
Builds(psi) == IF IsSignPositive(psi) THEN {FALSE} ELSE BOOLEAN

\* the callers and the coordinates queried when callers run concurrently
ConcPsi == {1, 3}
ConcTheta == {1, 3}
ConcTokamaks == {NumericalTokamak, WrappingTokamak}

\* the state after construction of the aggregate, before the first query
Init ==
    /\ tok \in Tokamaks
    /\ accs = FreshAccs
    /\ last = NoQuery
    /\ parts = NoParts
    /\ ctor = NoCtor

----------------------------------------------------------------------------
(* Queries *)

\* a query of one coordinate by caller c, with or without its psi accelerator
Query1D(c, self, op, psi, some, debug) ==
    LET acc == IF some THEN accs[Owner(c)].psi ELSE NoAcc
        out == IF op \in QfactorOps
               THEN QfactorCall(self, op, psi, acc, debug)
               ELSE CurrentCall(self, op, psi, acc)
    IN /\ tok # NoObj
       /\ some \/ self.kind \in OptionalAccKinds
       /\ accs' = IF some THEN [accs EXCEPT ![Owner(c)].psi = out.acc] ELSE accs
       /\ last' = [psi |-> psi, res |-> out.res, theta |-> 0, debug |-> debug,
                   op |-> op, caller |-> c,
                   some |-> some, reuse |-> (some /\ acc # AccNew)]
       /\ UNCHANGED <<tok, parts, ctor>>

\* a query of two coordinates by caller c with its psi and theta accelerators
Query2D(c, self, op, psi, theta, debug) ==
    LET xacc == accs[Owner(c)].psi
        yacc == accs[Owner(c)].theta
        out == IF op \in BfieldOps
               THEN BfieldCall(self, op, psi, theta, xacc, yacc, debug)
               ELSE EfieldCall(self, op, psi, theta, xacc, yacc, debug)
    IN /\ tok # NoObj
       /\ accs' = [accs EXCEPT ![Owner(c)] = [psi |-> out.xacc, theta |-> out.yacc]]
       /\ last' = [psi |-> psi, res |-> out.res, theta |-> theta, debug |-> debug,
                   op |-> op, caller |-> c,
                   some |-> TRUE, reuse |-> (xacc # AccNew \/ yacc # AccNew)]
       /\ UNCHANGED <<tok, parts, ctor>>

Q(c, psi, some, debug) == Query1D(c, tok.qfactor, "q", psi, some, debug)
Psip(c, psi, some, debug) == Query1D(c, tok.qfactor, "psip", psi, some, debug)
I(c, psi) == Query1D(c, tok.current, "i", psi, TRUE, FALSE)
G(c, psi) == Query1D(c, tok.current, "g", psi, TRUE, FALSE)
IDer(c, psi) == Query1D(c, tok.current, "i_der", psi, TRUE, FALSE)
GDer(c, psi) == Query1D(c, tok.current, "g_der", psi, TRUE, FALSE)
B(c, psi, theta, debug) == Query2D(c, tok.bfield, "b", psi, theta, debug)
DbDtheta(c, psi, theta, debug) == Query2D(c, tok.bfield, "db_dtheta", psi, theta, debug)
DbDpsi(c, psi, theta, debug) == Query2D(c, tok.bfield, "db_dpsi", psi, theta, debug)
D2bDpsi2(c, psi, theta, debug) == Query2D(c, tok.bfield, "d2b_dpsi2", psi, theta, debug)
Phi(c, psi, theta, debug) == Query2D(c, tok.efield, "phi", psi, theta, debug)
E(c, psi, theta, debug) == Query2D(c, tok.efield, "e", psi, theta, debug)
DphiDpsi(c, psi, theta, debug) == Query2D(c, tok.efield, "dphi_dpsi", psi, theta, debug)
DphiDtheta(c, psi, theta, debug) == Query2D(c, tok.efield, "dphi_dtheta", psi, theta, debug)

\* one query by a caller of C at coordinates of P and T
NextOver(C, P, T) ==
    \E c \in C, psi \in P :
        \/ \E some \in BOOLEAN, debug \in Builds(psi) : Q(c, psi, some, debug)
        \/ \E some \in BOOLEAN, debug \in Builds(psi) : Psip(c, psi, some, debug)
        \/ I(c, psi)
        \/ G(c, psi)
        \/ IDer(c, psi)
        \/ GDer(c, psi)
        \/ \E theta \in T, debug \in Builds(psi) : B(c, psi, theta, debug)
        \/ \E theta \in T, debug \in Builds(psi) : DbDtheta(c, psi, theta, debug)
        \/ \E theta \in T, debug \in Builds(psi) : DbDpsi(c, psi, theta, debug)
        \/ \E theta \in T, debug \in Builds(psi) : D2bDpsi2(c, psi, theta, debug)
        \/ \E theta \in T, debug \in Builds(psi) : Phi(c, psi, theta, debug)
        \/ \E theta \in T, debug \in Builds(psi) : E(c, psi, theta, debug)
        \/ \E theta \in T, debug \in Builds(psi) : DphiDpsi(c, psi, theta, debug)
        \/ \E theta \in T, debug \in Builds(psi) : DphiDtheta(c, psi, theta, debug)

\* a single caller querying the whole coordinate range
Next == NextOver({1}, PsiQueries, ThetaQueries)

Spec == Init /\ [][Next]_vars

\* several callers, each with its own accelerators, querying one shared
\* numerical aggregate in any interleaving
InitConc ==
    /\ tok \in ConcTokamaks
    /\ accs = FreshAccs
    /\ last = NoQuery
    /\ parts = NoParts
    /\ ctor = NoCtor

NextConc == NextOver(Callers, ConcPsi, ConcTheta)

SpecConc == InitConc /\ [][NextConc]_vars

\* analytical aggregates queried at flux values of order 1: regular
\* Parabolic profiles (qwall > q0 > 0, and one with qwall = q0) and Unity
RegularParabolic ==
    {<<100, 400, 4 * Scale>>, <<50, 100, 2 * Scale>>, <<225, 400, 5 * Scale>>,
     <<100, 100, 5 * Scale>>}

AnaTokamaks ==
    {AnalyticalTokamak(UnityNew.obj)}
    \cup {AnalyticalTokamak(NewParabolic(p).obj) : p \in RegularParabolic}

AnaPsi == {-1} \cup {k * Scale : k \in 0..MaxPsi}

\* the accelerators the caller holds when it starts querying: fresh ones, or
\* (for the Unity aggregate) ones that were used on some spline before
AnaAccs(t) ==
    IF t.qfactor.kind = "qfactor::Unity"
    THEN {[FreshAccs EXCEPT ![1] = [psi |-> [cache |-> a], theta |-> [cache |-> a]]] :
              a \in 0..1}
    ELSE {FreshAccs}

InitAna ==
    /\ tok \in AnaTokamaks
    /\ accs \in AnaAccs(tok)
    /\ last = NoQuery
    /\ parts = NoParts
    /\ ctor = NoCtor

NextAna == NextOver({1}, AnaPsi, ThetaQueries)

SpecAna == InitAna /\ [][NextAna]_vars

\* the three kinds of q-factor side by side: the Parabolic profile
\* (1.0, 4.0, 4.0), a Numerical one built from samples of it, and Unity
SampledParabolic == <<100, 400, 4 * Scale>>

RelTokamaks ==
    {AnalyticalTokamak(UnityNew.obj),
     AnalyticalTokamak(NewParabolic(SampledParabolic).obj),
     AnalyticalTokamak(QfactorFromDataset("parabolic.nc", "Linear").obj)}

InitRel ==
    /\ tok \in RelTokamaks
    /\ accs = FreshAccs
    /\ last = NoQuery
    /\ parts = NoParts
    /\ ctor = NoCtor

NextRel == NextOver({1}, AnaPsi, ThetaQueries)

SpecRel == InitRel /\ [][NextRel]_vars

\* a caller holding the aggregate mutably assigns one of the public fields
\* q0, qwall, psi_wall of its Parabolic q-factor; no other field changes
AssignedValues == {Scale, 2 * Scale, 4 * Scale}

AssignQ0(v) ==
    /\ tok.qfactor.kind = "qfactor::Parabolic"
    /\ tok' = [tok EXCEPT !.qfactor.q0 = Fin(v)]
    /\ UNCHANGED <<accs, last, parts, ctor>>

AssignQwall(v) ==
    /\ tok.qfactor.kind = "qfactor::Parabolic"
    /\ tok' = [tok EXCEPT !.qfactor.qwall = Fin(v)]
    /\ UNCHANGED <<accs, last, parts, ctor>>

AssignPsiWall(v) ==
    /\ tok.qfactor.kind = "qfactor::Parabolic"
    /\ tok' = [tok EXCEPT !.qfactor.psi_wall = Fin(v)]
    /\ UNCHANGED <<accs, last, parts, ctor>>

InitAssign ==
    /\ tok \in {AnalyticalTokamak(NewParabolic(p).obj) : p \in RegularParabolic}
    /\ accs = FreshAccs
    /\ last = NoQuery
    /\ parts = NoParts
    /\ ctor = NoCtor

\* queries of the q-factor interleaved with assignments to its fields
NextAssign ==
    \/ \E psi \in AnaPsi :
           \E some \in BOOLEAN, debug \in Builds(psi) : Q(1, psi, some, debug)
    \/ \E psi \in AnaPsi :
           \E some \in BOOLEAN, debug \in Builds(psi) : Psip(1, psi, some, debug)
    \/ \E v \in AssignedValues : AssignQ0(v)
    \/ \E v \in AssignedValues : AssignQwall(v)
    \/ \E v \in AssignedValues : AssignPsiWall(v)

SpecAssign == InitAssign /\ [][NextAssign]_vars

----------------------------------------------------------------------------
(* mod_theta on floating-point angles: numbers are integers in units of the
   smallest increment, and only those with at most FloatBits significant
   bits exist; a sum is rounded to the nearest of them, ties to even *)

\* significant bits of a floating-point number
FloatBits == 5
\* largest magnitude of the angles wrapped
MaxAngle == 248

RECURSIVE Pow2(_)
Pow2(e) == IF e <= 0 THEN 1 ELSE 2 * Pow2(e - 1)

RECURSIVE Log2(_)
\* floor of the binary logarithm of n >= 1
Log2(n) == IF n < 2 THEN 0 ELSE 1 + Log2(n \div 2)

\* spacing of the floating-point numbers around n
Ulp(n) == IF Abs(n) < Pow2(FloatBits) THEN 1 ELSE Pow2(Log2(Abs(n)) - FloatBits + 1)

Representable(n) == n % Ulp(n) = 0

\* the floating-point number nearest to n >= 0, ties to the even significand
RoundFloat(n) ==
    LET u == Ulp(n)
        lo == n - (n % u)
        hi == lo + u
        over == n - lo
    IN IF 2 * over < u THEN lo
       ELSE IF 2 * over > u THEN hi
       ELSE IF (lo \div u) % 2 = 0 THEN lo ELSE hi

\* self % rhs of f64: the remainder with the sign of self, always exact
FRem(self, rhs) == self - TruncDiv(self, rhs) * rhs

\* f64::rem_euclid: r = self % rhs; if r < 0.0 { r + rhs.abs() } else { r }
rem_euclid(self, rhs) ==
    LET r == FRem(self, rhs)
    IN IF r < 0 THEN RoundFloat(r + Abs(rhs)) ELSE r

\* std::f64::consts::TAU as a floating-point number
TAU == 100

\* mod_theta(theta) = theta.rem_euclid(TAU), on floating-point angles
mod_theta_f64(theta) == rem_euclid(theta, TAU)

\* the angles passed to mod_theta
Angles == {n \in (-MaxAngle)..MaxAngle : Representable(n)}

\* one call of mod_theta; last.theta and last.res are floating-point angles
ModThetaCall(theta) ==
    /\ last' = [NoQuery EXCEPT !.theta = theta, !.op = "mod_theta", !.caller = 1,
                               !.res = Ok(Fin(mod_theta_f64(theta)))]
    /\ UNCHANGED <<tok, accs, parts, ctor>>

InitWrap ==
    /\ tok = NoObj
    /\ accs = FreshAccs
    /\ last = NoQuery
    /\ parts = NoParts
    /\ ctor = NoCtor

NextWrap == \E theta \in Angles : ModThetaCall(theta)

SpecWrap == InitWrap /\ [][NextWrap]_vars

----------------------------------------------------------------------------
(* Construction: the caller builds the quantities, then the aggregate *)

\* let x = Ctor(...)?: on Ok the object is bound in slot, otherwise nothing is
Construct(op, path, typ, params, slot, r) ==
    /\ tok = NoObj
    /\ ctor' = [tag |-> r.tag, err |-> r.err, typ |-> typ, path |-> path,
                obj |-> r.obj, op |-> op, params |-> params]
    /\ parts' = IF IsOk(r) THEN [parts EXCEPT ![slot] = r.obj] ELSE parts
    /\ UNCHANGED <<tok, accs, last>>

QfactorNumericalFromDataset(path, typ) ==
    Construct("qfactor::Numerical::from_dataset", path, typ, <<>>, "qfactor",
              QfactorFromDataset(path, typ))

BfieldNumericalFromDataset(path, typ) ==
    Construct("bfield::Numerical::from_dataset", path, typ, <<>>, "bfield",
              BfieldFromDataset(path, typ))

CurrentNumericalFromDataset(path, typ) ==
    Construct("current::Numerical::from_dataset", path, typ, <<>>, "current",
              CurrentFromDataset(path, typ))

BfieldPyFromDataset(path, typ) ==
    Construct("Bfield::from_dataset", path, typ, <<>>, "bfield",
              PyBfieldFromDataset(path, typ))

ParabolicNewCall(p) ==
    Construct("qfactor::Parabolic::new", "-", "-", p, "qfactor", NewParabolic(p))

UnityNewCall == Construct("qfactor::Unity::new", "-", "-", <<>>, "qfactor", UnityNew)

LarNewCall == Construct("bfield::Lar::new", "-", "-", <<>>, "bfield", LarNew)

CurrentLarNewCall ==
    Construct("current::Lar::new", "-", "-", <<>>, "current", CurrentLarNew)

NoEfieldNewCall ==
    Construct("efield::NoEfield::new", "-", "-", <<>>, "efield", NoEfieldNew)

\* Equilibrium::from_dataset(path): on Ok the aggregate exists
EquilibriumFromDatasetCall(path) ==
    LET r == EquilibriumFromDataset(path)
    IN /\ tok = NoObj
       /\ ctor' = [tag |-> r.tag, err |-> r.err, typ |-> "-",
                   path |-> path, obj |-> r.obj, op |-> "Equilibrium::from_dataset", params |-> <<>>]
       /\ tok' = IF IsOk(r) THEN r.obj ELSE tok
       /\ UNCHANGED <<accs, last, parts>>

\* Tokamak::build(qfactor, bfield, current, efield): the four quantities are
\* moved into the aggregate
TokamakBuildCall ==
    LET r == TokamakBuild(parts.qfactor, parts.bfield, parts.current, parts.efield)
    IN /\ tok = NoObj
       /\ \A f \in DOMAIN parts : parts[f] # NoObj
       /\ ctor' = [tag |-> r.tag, err |-> r.err, typ |-> "-",
                   path |-> "-", obj |-> r.obj, op |-> "Tokamak::build", params |-> <<>>]
       /\ tok' = IF IsOk(r) THEN r.obj ELSE tok
       /\ parts' = NoParts
       /\ UNCHANGED <<accs, last>>

\* nothing constructed yet
InitBuild ==
    /\ tok = NoObj
    /\ accs = FreshAccs
    /\ last = NoQuery
    /\ parts = NoParts
    /\ ctor = NoCtor

NextBuild ==
    \/ \E path \in Paths, typ \in Tags : QfactorNumericalFromDataset(path, typ)
    \/ \E path \in Paths, typ \in Tags : BfieldNumericalFromDataset(path, typ)
    \/ \E path \in Paths, typ \in Tags : CurrentNumericalFromDataset(path, typ)
    \/ \E path \in Paths, typ \in Tags : BfieldPyFromDataset(path, typ)
    \/ \E path \in Paths : EquilibriumFromDatasetCall(path)
    \/ \E p \in ParabolicParams : ParabolicNewCall(p)
    \/ UnityNewCall
    \/ LarNewCall
    \/ CurrentLarNewCall
    \/ NoEfieldNewCall
    \/ TokamakBuildCall

SpecBuild == InitBuild /\ [][NextBuild]_vars

----------------------------------------------------------------------------
(* Claims on construction (SpecBuild) *)

NumericalCtors ==
    {"qfactor::Numerical::from_dataset", "bfield::Numerical::from_dataset",
     "current::Numerical::from_dataset"}

\* the variables a numerical quantity needs from the dataset
RequiredVars(op) ==
    IF op = "qfactor::Numerical::from_dataset" THEN {PSI_COORD, Q_FACTOR}
    ELSE IF op = "bfield::Numerical::from_dataset" THEN {PSI_COORD, THETA_COORD, B_FIELD}
    ELSE {PSI_COORD, CURRENT_I, CURRENT_G}

MissesRequired(op, path) == \E v \in RequiredVars(op) : ~HasVar(path, v)

SupportedTag(op, typ) ==
    IF op = "bfield::Numerical::from_dataset" THEN typ \in Types2d ELSE typ \in Types1d

\* a constructed numerical quantity has every one of its fields set
FullyInitialized(o) ==
    IF o.kind = "qfactor::Numerical"
    THEN /\ o.q_spline.typ \in Types1d
         /\ o.psip_spline.typ \in Types1d
         /\ Len(o.psip_data) = Len(o.q_spline.xa)
    ELSE IF o.kind = "bfield::Numerical"
    THEN /\ o.b_spline.typ \in Types2d
         /\ Len(o.b_data) = Len(o.b_spline.xa)
    ELSE IF o.kind = "current::Numerical"
    THEN o.i_spline.typ \in Types1d /\ o.g_spline.typ \in Types1d
    ELSE FALSE

\* C1: from_dataset of a numerical quantity on a dataset that cannot be
\* opened, that misses a required variable, or with an unsupported method
\* tag returns the error of the first failing step (NcError for the file and
\* the extractions, SplineError for the spline build) and no object; a
\* quantity object exists only as the fully initialized Ok value.
C1_ConstructionFailure ==
    ctor.op \in NumericalCtors =>
        /\ ~CanOpen(ctor.path) \/ MissesRequired(ctor.op, ctor.path)
              => ctor.tag = "Err" /\ ctor.err = "NcError" /\ ctor.obj = NoObj
        /\ CanOpen(ctor.path) /\ ~MissesRequired(ctor.op, ctor.path)
              /\ ~SupportedTag(ctor.op, ctor.typ)
              => ctor.tag = "Err" /\ ctor.err = "SplineError" /\ ctor.obj = NoObj
        /\ ctor.obj # NoObj => ctor.tag = "Ok" /\ FullyInitialized(ctor.obj)

\* a from_dataset call with an unsupported tag on a complete dataset, and it failed
C1_Witness ==
    /\ ctor.op \in NumericalCtors
    /\ ctor.path = "good.nc"
    /\ ~SupportedTag(ctor.op, ctor.typ)
    /\ ctor.tag = "Err"

\* C2: Equilibrium::from_dataset(path) returns either a fully composed
\* Equilibrium or the failure of the first failing step, and nothing else.
C2_EquilibriumFromDataset ==
    ctor.op = "Equilibrium::from_dataset" =>
        \/ /\ ctor.tag = "Ok"
           /\ ctor.obj.kind = "Tokamak"
           /\ \A f \in {"qfactor", "bfield", "current", "efield"} : ctor.obj[f] # NoObj
        \/ ctor.tag = "Err" /\ ctor.obj = NoObj

\* degenerate parameters of a parabolic profile: qwall <= q0, q0 <= 0 or psi_wall = 0
Degenerate(p) == p[2] <= p[1] \/ p[1] <= 0 \/ p[3] = 0

\* C10: Parabolic::new returns a construction error for degenerate
\* parameters, so that no aggregate holds a degenerate parabolic q-factor.
C10_ParabolicNewRejects ==
    /\ ctor.op = "qfactor::Parabolic::new" /\ Degenerate(ctor.params)
          => ctor.tag = "Err"
    /\ tok # NoObj /\ tok.qfactor.kind = "qfactor::Parabolic"
          => ~Degenerate(<<tok.qfactor.q0.n, tok.qfactor.qwall.n, tok.qfactor.psi_wall.n>>)

----------------------------------------------------------------------------
(* Claims on queries (Spec, SpecConc) *)

NumericalKinds ==
    {"qfactor::Numerical", "bfield::Numerical", "Bfield", "current::Numerical"}

\* the field of the aggregate t that the operation op queries
FieldOf(t, op) ==
    IF op \in QfactorOps THEN t.qfactor
    ELSE IF op \in CurrentOps THEN t.current
    ELSE IF op \in BfieldOps THEN t.bfield
    ELSE t.efield

SplineBacked(t, op) == FieldOf(t, op).kind \in NumericalKinds

\* the Result of the query ql on the aggregate t at angle theta with the
\* accelerators pacc (psi) and tacc (theta)
QueryResultAt(t, ql, theta, pacc, tacc) ==
    IF ql.op \in QfactorOps
    THEN QfactorCall(t.qfactor, ql.op, ql.psi, IF ql.some THEN pacc ELSE NoAcc,
                     ql.debug).res
    ELSE IF ql.op \in CurrentOps
    THEN CurrentCall(t.current, ql.op, ql.psi, pacc).res
    ELSE IF ql.op \in BfieldOps
    THEN BfieldCall(t.bfield, ql.op, ql.psi, theta, pacc, tacc, ql.debug).res
    ELSE EfieldCall(t.efield, ql.op, ql.psi, theta, pacc, tacc, ql.debug).res

QueryResult(t, ql, pacc, tacc) == QueryResultAt(t, ql, ql.theta, pacc, tacc)

Queried == last.caller # 0

\* C3: every query of the numerical magnetic field gives the same outcome
\* at theta and at theta + 2*pi*k.
C3_ThetaPeriodicity ==
    Queried /\ last.op \in BfieldOps /\ SplineBacked(tok, last.op) =>
        \A k \in {-2, -1, 1, 2} :
            QueryResultAt(tok, last, last.theta + k * Tau, AccNew, AccNew) = last.res

\* C4: a query of a spline-backed quantity returns, whatever the earlier
\* queries left in the accelerators passed to it, what it returns with fresh
\* accelerators.
C4_AcceleratorReuse ==
    Queried /\ SplineBacked(tok, last.op) =>
        last.res = QueryResult(tok, last, AccNew, AccNew)

\* q returned a value through an accelerator that earlier queries had moved
C4_Witness ==
    /\ Queried
    /\ tok.qfactor.kind = "qfactor::Numerical"
    /\ last.op = "q"
    /\ last.reuse
    /\ IsOk(last.res)

\* C5: with each caller owning its accelerators, a query step of one caller
\* leaves the aggregate and every other caller's accelerators unchanged, and
\* its Result is the one determined by the caller's own accelerators.
C5_CallerIsolation ==
    [][/\ tok' = tok
       /\ \A c \in Callers : c # last'.caller => accs'[c] = accs[c]
       /\ last'.res = QueryResult(tok, last', accs[last'.caller].psi,
                                  accs[last'.caller].theta)]_vars

\* caller 2 got a value while caller 1's accelerators were elsewhere
C5_Witness ==
    /\ last.caller = 2
    /\ IsOk(last.res)
    /\ accs[1] # FreshAccs[1]
    /\ accs[2] # accs[1]

AnalyticalKinds ==
    {"qfactor::Unity", "qfactor::Parabolic", "bfield::Lar", "current::Lar",
     "efield::NoEfield"}

\* C6: no query changes the aggregate; an analytical query, and a query
\* without accelerator, changes no accelerator; a query of one coordinate
\* changes no theta accelerator; only the querying caller's accelerators can
\* change.
C6_QueriesReadOnly ==
    [][/\ tok' = tok
       /\ FieldOf(tok, last'.op).kind \in AnalyticalKinds => accs' = accs
       /\ ~last'.some => accs' = accs
       /\ last'.op \in QfactorOps \cup CurrentOps =>
              \A c \in Callers : accs'[c].theta = accs[c].theta
       /\ \A c \in Callers : c # last'.caller => accs'[c] = accs[c]]_vars

\* NoEfield was queried with accelerators that earlier numerical queries moved
C6_Witness ==
    /\ Queried
    /\ last.op \in EfieldOps
    /\ last.reuse
    /\ IsOk(last.res)
    /\ accs[1] # FreshAccs[1]

OutOfGrid(xa, x) == x < At(xa, 0) \/ x > Last(xa)

\* the last query is a query of a numerical quantity at a coordinate outside
\* the range of its interpolant (theta after wrapping)
OutOfRange ==
    LET f == FieldOf(tok, last.op)
    IN /\ Queried
       /\ \/ f.kind = "qfactor::Numerical" /\ OutOfGrid(f.q_spline.xa, last.psi)
          \/ f.kind = "current::Numerical" /\ OutOfGrid(f.i_spline.xa, last.psi)
          \/ /\ f.kind \in {"bfield::Numerical", "Bfield"}
             /\ \/ OutOfGrid(f.b_spline.xa, last.psi)
                \/ OutOfGrid(f.b_spline.ya, last.theta % Tau)

C8_MissingAccelerator ==
    Queried /\ last.op \in QfactorOps /\ tok.qfactor.kind = "qfactor::Numerical" =>
        /\ ~last.some => last.res = Err("AccError")
        /\ last.some => last.res.err # "AccError"

\* q was called without accelerator at an out-of-range psi
C8_Witness ==
    /\ Queried
    /\ tok.qfactor.kind = "qfactor::Numerical"
    /\ last.op = "q"
    /\ ~last.some
    /\ OutOfGrid(tok.qfactor.q_spline.xa, last.psi)
    /\ last.res = Err("AccError")

\* C9: no query at psi >= 0 returns Ok with a NaN or an infinite value.
C9_NoNonFiniteOk ==
    Queried /\ last.psi >= 0 /\ IsOk(last.res) => IsFinite(last.res.val)

----------------------------------------------------------------------------
(* Claims on the constructed numerical quantities (SpecBuild) *)

\* the last constructor call was op and returned Ok
Constructed(op) == ctor.op = op /\ ctor.tag = "Ok"

\* the coordinate array v of the dataset at path with 0.0 prepended
PaddedGrid(path, v) == <<0>> \o DataOf(path)[v]

RECURSIVE Trapezoid2(_, _, _)
\* twice the integral over [xa[1], xa[k]] of the piecewise linear function
\* through the samples (xa, ya)
Trapezoid2(xa, ya, k) ==
    IF k <= 1 THEN 0
    ELSE Trapezoid2(xa, ya, k - 1) + (xa[k] - xa[k - 1]) * (ya[k - 1] + ya[k])

\* C11: psip_data has one entry per entry of the padded psi grid, entry k is
\* the integral of the q spline over [0, psi_k], entry 0 is 0, and the psip
\* spline is built over the padded grid and these samples with the same tag.
C11_PsipByIntegration ==
    Constructed("qfactor::Numerical::from_dataset") =>
        LET o == ctor.obj
            grid == PaddedGrid(ctor.path, PSI_COORD)
        IN /\ o.q_spline.xa = grid
           /\ o.q_spline.typ = ctor.typ
           /\ Len(o.psip_data) = Len(grid)
           /\ \A k \in 1..Len(grid) :
                  o.psip_data[k] =
                      TruncDiv(Trapezoid2(grid, o.q_spline.ya, k), 2 * Scale)
           /\ o.psip_data[1] = 0
           /\ o.psip_spline = [xa |-> grid, typ |-> ctor.typ, ya |-> o.psip_data]

\* the q-factor of the four-sample grid was built, with growing integrals
C11_Witness ==
    /\ Constructed("qfactor::Numerical::from_dataset")
    /\ ctor.path = "fine.nc"
    /\ Len(ctor.obj.psip_data) = 4
    /\ ctor.obj.psip_data[2] > 0
    /\ ctor.obj.psip_data[4] > ctor.obj.psip_data[3]

\* xa is a raw flux coordinate array of the dataset at path behind a leading 0
IsPaddedFluxGrid(path, xa) ==
    /\ xa[1] = 0
    /\ Tail(xa) \in {DataOf(path)[PSI_COORD], DataOf(path)[PSIP_COORD]}

\* ya is the raw array v of the dataset at path behind a copy of its first sample
IsPaddedValues(path, v, ya) ==
    /\ Len(ya) = Len(DataOf(path)[v]) + 1
    /\ ya[1] = DataOf(path)[v][1]
    /\ Tail(ya) = DataOf(path)[v]

\* C12: the numerical q-factor and current hold the flux grid behind a
\* prepended 0.0 and each value array behind a copy of its first sample, and
\* q(0), i(0), g(0) return exactly the first tabulated sample.
C12_AxisPadding ==
    /\ Constructed("qfactor::Numerical::from_dataset") =>
          LET o == ctor.obj
          IN /\ IsPaddedFluxGrid(ctor.path, o.q_spline.xa)
             /\ IsPaddedValues(ctor.path, Q_FACTOR, o.q_spline.ya)
             /\ Numerical_q(o, 0, AccNew).res = Ok(Fin(DataOf(ctor.path)[Q_FACTOR][1]))
    /\ Constructed("current::Numerical::from_dataset") =>
          LET o == ctor.obj
          IN /\ IsPaddedFluxGrid(ctor.path, o.i_spline.xa)
             /\ IsPaddedFluxGrid(ctor.path, o.g_spline.xa)
             /\ IsPaddedValues(ctor.path, CURRENT_I, o.i_spline.ya)
             /\ IsPaddedValues(ctor.path, CURRENT_G, o.g_spline.ya)
             /\ CNumerical_i(o, 0, AccNew).res = Ok(Fin(DataOf(ctor.path)[CURRENT_I][1]))
             /\ CNumerical_g(o, 0, AccNew).res = Ok(Fin(DataOf(ctor.path)[CURRENT_G][1]))

\* the current of the first dataset was built; its first I sample is not 0
C12_Witness ==
    /\ Constructed("current::Numerical::from_dataset")
    /\ ctor.path = "good.nc"
    /\ ctor.obj.i_spline.ya[1] = ctor.obj.i_spline.ya[2]
    /\ ctor.obj.i_spline.ya[1] # 0
    /\ Len(ctor.obj.i_spline.ya) = 3

\* C13: the stored B table is the raw table of n rows and m columns behind
\* one row of m entries 1.0: n+1 rows, m columns, row 0 all 1.0, row i+1
\* equal to raw row i.
C13_OnesRowPrepended ==
    Constructed("bfield::Numerical::from_dataset") =>
        LET raw == DataOf(ctor.path)[B_FIELD]
            t == ctor.obj.b_data
        IN /\ Len(t) = Len(raw) + 1
           /\ \A r \in 1..Len(t) : Len(t[r]) = Len(raw[1])
           /\ \A c \in 1..Len(t[1]) : t[1][c] = Scale
           /\ \A r \in 1..Len(raw) : t[r + 1] = raw[r]

\* the field of the 3 x 2 table was built
C13_Witness ==
    /\ Constructed("bfield::Numerical::from_dataset")
    /\ ctor.path = "fine.nc"
    /\ Len(ctor.obj.b_data) = 4
    /\ ctor.obj.b_data[1] = <<Scale, Scale>>
    /\ ctor.obj.b_data[4] = <<85, 115>>

\* C14: the flux array given to the 2D B spline and to the I and g splines is
\* the dataset's poloidal flux array with 0.0 prepended.
C14_PoloidalFluxGrid ==
    /\ Constructed("bfield::Numerical::from_dataset") =>
          ctor.obj.b_spline.xa = PaddedGrid(ctor.path, PSIP_COORD)
    /\ Constructed("current::Numerical::from_dataset") =>
          /\ ctor.obj.i_spline.xa = PaddedGrid(ctor.path, PSIP_COORD)
          /\ ctor.obj.g_spline.xa = PaddedGrid(ctor.path, PSIP_COORD)

----------------------------------------------------------------------------
(* Claims on the analytical quantities (SpecAna) *)

\* the last query was op on a qfactor of the given kind, and it returned
AnsweredBy(kind, ops) ==
    /\ Queried
    /\ last.op \in ops
    /\ FieldOf(tok, last.op).kind = kind
    /\ last.res.tag # "Panic"

\* q0 + (qwall - q0) * (psi / psi_wall)^2 from the parameters of the profile
ClosedQ(o, psi) ==
    FAdd(o.q0, FMul(FSub(o.qwall, o.q0), FPowi2(FDiv(Fin(psi), o.psi_wall))))

\* flux values of the sweep in [0, psi_wall]
InsideWall(o) == {psi \in AnaPsi : 0 <= psi /\ psi <= o.psi_wall.n}

\* C15: for qwall >= q0 and psi_wall > 0, q(psi) is the closed form, q(0) is
\* q0, q(psi_wall) is qwall, and q is non-decreasing on [0, psi_wall].
C15_ParabolicQ ==
    AnsweredBy("qfactor::Parabolic", {"q"}) /\ last.psi >= 0 =>
        LET o == tok.qfactor
        IN /\ last.res = Ok(ClosedQ(o, last.psi))
           /\ last.psi = 0 => last.res.val = o.q0
           /\ last.psi = o.psi_wall.n => last.res.val = o.qwall
           /\ last.psi \in InsideWall(o) =>
                  \A p \in InsideWall(o) :
                      p <= last.psi =>
                          Parabolic_q(o, p, NoAcc, FALSE).res.val.n <= last.res.val.n

\* q was queried at the wall of a profile with qwall > q0
C15_Witness ==
    /\ AnsweredBy("qfactor::Parabolic", {"q"})
    /\ last.psi = tok.qfactor.psi_wall.n
    /\ tok.qfactor.qwall.n > tok.qfactor.q0.n
    /\ last.res = Ok(tok.qfactor.qwall)

\* (psi_wall / (sqrt(q0) * sqrt(D))) * atan(sqrt(D) * psi / (sqrt(q0) * psi_wall))
\* with D = qwall - q0, from the parameters of the profile
ClosedPsip(o, psi) ==
    LET delta == FSub(o.qwall, o.q0)
    IN FMul(FDiv(o.psi_wall, FMul(FSqrt(o.q0), FSqrt(delta))),
            FAtan(FDiv(FMul(FSqrt(delta), Fin(psi)), FMul(FSqrt(o.q0), o.psi_wall))))

ClosedLar(op, psi, theta) ==
    LET root == FSqrt(FMul(Fin(2 * Scale), Fin(psi)))
    IN CASE op = "b" -> FSub(Fin(Scale), FMul(root, FCos(theta)))
         [] op = "db_dtheta" -> FMul(root, FSin(theta))
         [] op = "db_dpsi" -> FDiv(FNeg(FCos(theta)), root)
         [] op = "d2b_dpsi2" ->
                FDiv(FCos(theta), FPowf32(FMul(Fin(2 * Scale), FSqrt(Fin(psi)))))

C19_LarCurrent ==
    /\ Queried
    /\ last.op \in CurrentOps
    /\ tok.current.kind = "current::Lar"
    =>
        last.res = Ok(Fin(IF last.op = "g" THEN Scale ELSE 0))

\* g was queried on the magnetic axis and returned 1.0
C19_Witness ==
    /\ Queried
    /\ last.op = "g"
    /\ tok.current.kind = "current::Lar"
    /\ last.psi = 0
    /\ last.res = Ok(Fin(Scale))


\* the last query was one of the four queries of efield::NoEfield
NoEfieldQueried ==
    /\ Queried
    /\ last.op \in EfieldOps
    /\ tok.efield.kind = "efield::NoEfield"

----------------------------------------------------------------------------
(* Claims on the aggregate and on the table layout (SpecBuild) *)

\* this step is a call of Tokamak::build
BuildStep == tok = NoObj /\ ctor'.op = "Tokamak::build"

\* the one-coordinate queries of quantity a and of quantity b agree
SameQueries1D(a, b, ops) ==
    \A op \in ops, psi \in PsiQueries :
        IF op \in QfactorOps
        THEN QfactorCall(a, op, psi, AccNew, FALSE) = QfactorCall(b, op, psi, AccNew, FALSE)
        ELSE CurrentCall(a, op, psi, AccNew) = CurrentCall(b, op, psi, AccNew)

\* the two-coordinate queries of quantity a and of quantity b agree
SameQueries2D(a, b, ops) ==
    \A op \in ops, psi \in PsiQueries, theta \in ThetaQueries :
        IF op \in BfieldOps
        THEN BfieldCall(a, op, psi, theta, AccNew, AccNew, FALSE)
                 = BfieldCall(b, op, psi, theta, AccNew, AccNew, FALSE)
        ELSE EfieldCall(a, op, psi, theta, AccNew, AccNew, FALSE)
                 = EfieldCall(b, op, psi, theta, AccNew, AccNew, FALSE)

\* C21: Tokamak::build always returns Ok, reads no file, and the aggregate
\* holds exactly the four quantities it was given, each in its own field and
\* unchanged, so that a query on a field answers as the quantity passed in.
C21_BuildComposes ==
    [][BuildStep =>
          /\ ctor'.tag = "Ok"
          /\ ctor'.path = "-"
          /\ tok' = ctor'.obj
          /\ tok' = [kind |-> "Tokamak", qfactor |-> parts.qfactor,
                     bfield |-> parts.bfield, current |-> parts.current,
                     efield |-> parts.efield]
          /\ SameQueries1D(tok'.qfactor, parts.qfactor, QfactorOps)
          /\ SameQueries1D(tok'.current, parts.current, CurrentOps)
          /\ SameQueries2D(tok'.bfield, parts.bfield, BfieldOps)
          /\ SameQueries2D(tok'.efield, parts.efield, EfieldOps)]_vars

\* an aggregate was built from a Parabolic q-factor and a numerical field
C21_Witness ==
    /\ ctor.op = "Tokamak::build"
    /\ ctor.tag = "Ok"
    /\ tok.qfactor.kind = "qfactor::Parabolic"
    /\ tok.bfield.kind = "bfield::Numerical"
    /\ tok.current.kind = "current::Lar"
    /\ tok.efield.kind = "efield::NoEfield"


----------------------------------------------------------------------------
(* Claims on the wrapping of theta (SpecWrap) *)

Wrapped == last.op = "mod_theta"

\* C23: for every theta, negative, zero or beyond 2 pi, mod_theta returns w
\* with 0 <= w < 2 pi that differs from theta by a multiple of 2 pi (here: to
\* within the rounding of one sum); mod_theta is idempotent, and
\* mod_theta(theta + 2 pi k) = mod_theta(theta) wherever theta + 2 pi k is
\* itself a floating-point number.
C23_ModTheta ==
    Wrapped =>
        LET theta == last.theta
            w == last.res.val.n
        IN /\ 0 <= w
           /\ w < TAU
           /\ \E k \in -4..4 : Abs(theta + k * TAU - w) <= Ulp(TAU)
           /\ mod_theta_f64(w) = w
           /\ \A k \in -2..2 :
                  Representable(theta + k * TAU) =>
                      mod_theta_f64(theta + k * TAU) = w


----------------------------------------------------------------------------
(* Claims relating the analytical quantities (SpecAna) *)

\* C24: for psi > 0 and every theta, Lar::d2b_dpsi2 is the derivative of
\* db_dpsi = -cos(theta) / sqrt(2 psi) with respect to psi, which is
\* cos(theta) / (2 psi)^(3/2).
C24_SecondDerivative ==
    AnsweredBy("bfield::Lar", {"d2b_dpsi2"}) /\ last.psi > 0 =>
        last.res = Ok(FDiv(FCos(last.theta), FPowf32(TwoPsi(last.psi))))


----------------------------------------------------------------------------
(* Claims relating q and psip (SpecRel) *)

\* width of the steps of the reference integral, and the error allowed to it
RefStep == Scale \div 4
RefTol == Scale \div 10

\* 1 / q(psi) of the q-factor self, in units of 1 / (10 Scale)
InverseQ(self, psi) ==
    TruncDiv(10 * Scale * Scale, QfactorCall(self, "q", psi, AccNew, FALSE).res.val.n)

RECURSIVE InverseQSum(_, _)
\* twice the trapezoid sum of 1 / q over [0, psi] in steps of RefStep
InverseQSum(self, psi) ==
    IF psi <= 0 THEN 0
    ELSE InverseQSum(self, psi - RefStep)
         + RefStep * (InverseQ(self, psi - RefStep) + InverseQ(self, psi))

\* the integral of 1 / q from 0 to psi
InverseQIntegral(self, psi) == TruncDiv(InverseQSum(self, psi), 2 * 10 * Scale)

\* C25: every kind of q-factor has psip(0) = 0 and psip(psi) equal to the
\* integral of 1 / q from 0 to psi; a Numerical q-factor built from samples
\* of a Parabolic profile agrees with the psip of that profile on the grid.
C25_PsipIntegratesInverseQ ==
    Queried /\ last.op = "psip" /\ IsOk(last.res) /\ last.psi >= 0 =>
        LET self == tok.qfactor
            w == last.res.val.n
        IN /\ last.psi = 0 => w = 0
           /\ Abs(w - InverseQIntegral(self, last.psi)) <= RefTol
           /\ self.kind = "qfactor::Numerical" =>
                  Abs(w - Parabolic_psip(NewParabolic(SampledParabolic).obj,
                                         last.psi, NoAcc, FALSE).res.val.n) <= RefTol


----------------------------------------------------------------------------
(* Claims on the cached constants of Parabolic (SpecAssign) *)

\* C26: after construction and after any queries and assignments to q0,
\* qwall and psi_wall, the cached constants agree with the parameters
\* (diff = qwall - q0, sqrt_diff = sqrt(diff), sqrt_prod = sqrt(q0) sqrt(diff),
\* sqrt_q0psi_wall = sqrt(q0) psi_wall), so q(0) = q0 and q(psi_wall) = qwall.
C26_CachedConstants ==
    tok.qfactor.kind = "qfactor::Parabolic" =>
        LET o == tok.qfactor
        IN /\ o.diff = FSub(o.qwall, o.q0)
           /\ o.sqrt_diff = FSqrt(o.diff)
           /\ o.sqrt_prod = FMul(FSqrt(o.q0), FSqrt(o.diff))
           /\ o.sqrt_q0psi_wall = FMul(FSqrt(o.q0), o.psi_wall)
           /\ Parabolic_q(o, 0, NoAcc, FALSE).res = Ok(o.q0)
           /\ Parabolic_q(o, o.psi_wall.n, NoAcc, FALSE).res = Ok(o.qwall)


----------------------------------------------------------------------------
(* Claims on the flux grid of the numerical quantities (SpecBuild) *)

\* the flux grids of the splines of a numerical quantity
FluxGrids(o) ==
    IF o.kind = "qfactor::Numerical" THEN {o.q_spline.xa, o.psip_spline.xa}
    ELSE IF o.kind = "bfield::Numerical" THEN {o.b_spline.xa}
    ELSE {o.i_spline.xa, o.g_spline.xa}

\* the dataset at path has every variable op needs, and its first toroidal
\* flux sample is 0 or negative
StartsOnOrBelowAxis(op, path) ==
    /\ CanOpen(path)
    /\ ~MissesRequired(op, path)
    /\ DataOf(path)[PSI_COORD][1] <= 0

====
